---- MODULE Spec2Model ----
(***************************************************************************)
(* Model of willowtree/lp.py: the function lp(z, q, k, tol) that builds a  *)
(* Markov chain of k-1 transition matrices by linear programming, retries  *)
(* each LP at relaxed tolerance, and repairs the chain by interpolation.   *)
(*                                                                         *)
(* Representation.                                                         *)
(*  - arrays of the program (flag, Px, alpha, t, repl_min, ...) are        *)
(*    functions on 0..len-1, so that indices read as in the source;        *)
(*    lists built by the program (failure, success, minvec, maxvec, the    *)
(*    returned chain and grid) are sequences, element j of the source      *)
(*    being element j+1 of the sequence;                                   *)
(*  - real numbers are fixed point: probabilities and the objective in     *)
(*    units of 1/Unit, tolerances in units of 1e-6, the time grid in     *)
(*    units of 1/k (t[j] = j), 1/sqrt(1+alpha) in units of 1/Scale;        *)
(*  - the LP solver (scipy.optimize.linprog) is an oracle: each call       *)
(*    returns any record of SolverResults and takes any time of Durations; *)
(*  - now is the wall clock measured from the beginning of the current     *)
(*    iteration of the per-step loop (only differences of the clock are    *)
(*    read by the program);                                                *)
(*  - interp_args and interp_ret are the arguments and the return value of *)
(*    a call of interpolate made on its own (specification SpecInterp).    *)
(***************************************************************************)
EXTENDS Integers, Sequences, FiniteSets, TLC

VARIABLES k, initial_tol, tol, i, pc, P, start, now, call, flag, Px,
          failure, minvec, maxvec, flag_rep, Px_rep, success, Px_out, t_new,
          interp_args, interp_ret

vars == <<k, initial_tol, tol, i, pc, P, start, now, call, flag, Px,
          failure, minvec, maxvec, flag_rep, Px_rep, success, Px_out, t_new,
          interp_args, interp_ret>>

(* ---------------------------------------------------------------- bounds *)
\* the largest number of time steps k passed by the caller
MaxK == 5

(* ------------------------------------------------------------- constants *)
\* number of space nodes n = len(z)
N == 2
\* fixed-point resolution of probabilities: np.isclose(.., 1e-6) resolves 1e-6
Unit == 1000000
\* the ceiling 1e-3 of line 272, in units of 1e-6
TolCeiling == 1000
\* the factor of tol *= 10
TolFactor == 10
\* the budget of line 272: 60 seconds
Budget == 60
\* fixed-point resolution of 1/np.sqrt(1+alpha)
Scale == 1000

Steps == 0 .. (k - 2)
NSteps == k - 1

(* --------------------------------------------------------------- helpers *)
Abs(a) == IF a < 0 THEN -a ELSE a

Range(s) == {s[j] : j \in DOMAIN s}

\* a numpy array (function on 0..n-1) as the sequence of its elements
ArrSeq(f, n) == [j \in 1 .. n |-> f[j - 1]]

\* ascending sequence of the elements of a finite set of integers
RECURSIVE SortedSeq(_)
SortedSeq(S) ==
    IF S = {} THEN <<>>
    ELSE LET m == CHOOSE x \in S : \A y \in S : x <= y
         IN <<m>> \o SortedSeq(S \ {m})

\* ndarray.sort() of a sequence (duplicates kept)
RECURSIVE InsertSorted(_, _)
InsertSorted(s, x) ==
    IF s = <<>> THEN <<x>>
    ELSE IF x <= Head(s) THEN <<x>> \o s
    ELSE <<Head(s)>> \o InsertSorted(Tail(s), x)

SetMax(S) == CHOOSE x \in S : \A y \in S : y <= x
SetMin(S) == CHOOSE x \in S : \A y \in S : x <= y

\* floor of the square root, by bisection on lo..hi
RECURSIVE ISqrtB(_, _, _)
ISqrtB(v, lo, hi) ==
    IF lo >= hi THEN lo
    ELSE LET mid == (lo + hi + 1) \div 2
         IN IF mid * mid <= v THEN ISqrtB(v, mid, hi)
            ELSE ISqrtB(v, lo, mid - 1)

ISqrt(v) == ISqrtB(v, 0, 2 * Scale)

(* ------------------------------------------------------ the time grid    *)
\* t = np.linspace(0, 1, k + 1), in units of 1/k
t == [j \in 0 .. k |-> j]

\* h = t[2:] - t[1:-1]
h == [j \in Steps |-> t[j + 2] - t[j + 1]]

\* alpha = h / t[1:-1], kept as the fraction num/den
alpha == [j \in Steps |-> [num |-> h[j], den |-> t[j + 1]]]

(* ------------------------------------------------------ solver results   *)
\* the float nan that linprog returns as x when it finds no feasible start:
\* a scalar, modelled as the array of no components
NaN == <<>>
\* np.zeros([n, n])
Zero == [r \in 1 .. N |-> [c \in 1 .. N |-> 0]]

\* a row-stochastic matrix
I2 == <<Unit, 0, 0, Unit>>
\* row-stochastic within the closeness tolerance (first row sums to 1+1e-6)
H2 == <<Unit \div 2, (Unit \div 2) + 1, Unit \div 4, 3 * (Unit \div 4)>>
\* a negative entry, rows within the closeness tolerance
Xneg == <<-1, Unit, 0, Unit>>
\* an entry above 1, rows within the closeness tolerance
Xgt == <<Unit + 1, 0, 0, Unit>>
\* entries in [0,1], first row sums to 1+2e-6
Xrow == <<Unit \div 2, (Unit \div 2) + 2, 0, Unit>>

\* the records optimize.linprog may return (status, fun, x)
SolverResults ==
    { [status |-> 0, fun |-> 0,        x |-> I2],
      [status |-> 0, fun |-> Unit,     x |-> H2],
      [status |-> 1, fun |-> 0,        x |-> I2],
      [status |-> 0, fun |-> -1,       x |-> I2],
      [status |-> 0, fun |-> Unit + 1, x |-> I2],
      [status |-> 0, fun |-> 0,        x |-> Xneg],
      [status |-> 0, fun |-> 0,        x |-> Xgt],
      [status |-> 0, fun |-> 0,        x |-> Xrow],
      [status |-> 2, fun |-> 0,        x |-> NaN] }

NoResult == [status |-> -1, fun |-> 0, x |-> NaN]
NoCall == [step |-> -1, tol |-> 0, first |-> FALSE]
NoArgs == <<>>
NoMatrix == <<>>

\* running times of one solver call, in seconds: none, less than the budget
\* of line 272, more than the budget
Durations == {0, 40, 70}

\* tolerances the caller may pass, in units of 1e-6: 1e-5, 5e-4, 2e-3
TolChoices == {10, 500, 2000}

(* --------------------------------------------------- Quality Validator   *)
\* np.isclose(a, b, 1e-6): |a-b| <= atol + rtol*|b|, rtol = 1e-6, atol = 1e-8
\* (both sides in units of 1e-8, a and b in units of 1/Unit)
IsClose(a, b) == 100 * Abs(a - b) <= 1 + (Abs(b) \div 10000)

IsNaN(x) == x = NaN

\* P.x.reshape(n, n): entry (r, c) of the matrix is x[(r-1)*n + c]
Reshape(x) == [r \in 1 .. N |-> [c \in 1 .. N |-> x[(r - 1) * N + c]]]

RECURSIVE SumSeq(_)
SumSeq(s) == IF s = <<>> THEN 0 ELSE Head(s) + SumSeq(Tail(s))

\* test(n, P): every row sums to 1 within the closeness tolerance; any
\* exception (an x that cannot be reshaped) gives False
test(x) ==
    IF IsNaN(x) \/ Len(x) # N * N THEN FALSE
    ELSE \A r \in 1 .. N : IsClose(SumSeq(Reshape(x)[r]), Unit)

\* the while condition without its first disjunct (P.status != 0)
RejectedMutStatus(R) ==
    \/ R.fun < 0
    \/ R.fun > Unit
    \/ \E j \in DOMAIN R.x : R.x[j] < 0
    \/ \E j \in DOMAIN R.x : R.x[j] > Unit
    \/ test(R.x) # TRUE

\* lines 260-262: the condition of the while loop
Rejected(R) ==
    \/ R.status # 0
    \/ R.fun < 0
    \/ R.fun > Unit
    \/ \E j \in DOMAIN R.x : R.x[j] < 0
    \/ \E j \in DOMAIN R.x : R.x[j] > Unit
    \/ test(R.x) # TRUE

(* --------------------------------------------------------- interpolate   *)
\* 1 / np.sqrt(1 + a) for a = num/den, in units of 1/Scale
InvSqrt1p(a) == ISqrt((Scale * Scale * a.den) \div (a.den + a.num))

\* integer division rounding toward minus infinity, for any sign of d # 0
Quot(a, d) == IF d > 0 THEN a \div d ELSE (-a) \div (-d)

\* line 171: coeff_min = (x3-x2) / (x1-x2), kept as the fraction num/den
CoeffMin(x1, x2, x3) == [num |-> x3 - x2, den |-> x1 - x2]

\* coeff_max with the sign of its numerator turned: (x3-x1) / (x1-x2)
CoeffMaxMutSign(x1, x2, x3) == [num |-> x3 - x1, den |-> x1 - x2]

\* line 172: coeff_max = (x1-x3) / (x1-x2), kept as the fraction num/den
CoeffMax(x1, x2, x3) == [num |-> x1 - x3, den |-> x1 - x2]

\* interpolate(P_min, P_max, alpha_min, alpha_max, alpha_interp):
\* coeff_min*P_min + coeff_max*P_max with coeff_min = (x3-x2)/(x1-x2) and
\* coeff_max = (x1-x3)/(x1-x2); a zero denominator gives entries that are
\* no probability (inf or nan in floating point)
interpolate(P_min, P_max, alpha_min, alpha_max, alpha_interp) ==
    LET x1 == InvSqrt1p(alpha_min)
        x2 == InvSqrt1p(alpha_max)
        x3 == InvSqrt1p(alpha_interp)
        coeff_min == CoeffMin(x1, x2, x3)
        coeff_max == CoeffMax(x1, x2, x3)
    IN [r \in 1 .. N |-> [c \in 1 .. N |->
          IF coeff_min.den = 0 THEN -(2000 * Unit)
          ELSE Quot(coeff_min.num * P_min[r][c] + coeff_max.num * P_max[r][c],
                    coeff_min.den)]]

(* ------------------------------------------------- Tolerance Escalator   *)
TypeOK ==
    /\ k \in 2 .. MaxK
    /\ initial_tol \in TolChoices
    /\ pc \in {"solve", "check", "while", "repair", "done", "raised",
               "interp", "returned"}
    /\ i \in 0 .. NSteps
    /\ flag \in [Steps -> {0, -1}]

Init ==
    /\ k \in 2 .. MaxK
    /\ initial_tol \in TolChoices
    /\ tol = initial_tol
    /\ i = 0
    /\ pc = "solve"
    /\ P = NoResult
    /\ start = 0
    /\ now = 0
    /\ call = NoCall
    /\ flag = [j \in Steps |-> 0]
    /\ Px = [j \in Steps |-> Zero]
    /\ failure = <<>>
    /\ minvec = <<>>
    /\ maxvec = <<>>
    /\ flag_rep = flag
    /\ Px_rep = Px
    /\ success = <<>>
    /\ Px_out = <<>>
    /\ t_new = <<>>
    /\ interp_args = NoArgs
    /\ interp_ret = NoMatrix

RepairVars == <<failure, minvec, maxvec, flag_rep, Px_rep, success, Px_out, t_new>>

InterpVars == <<interp_args, interp_ret>>

\* the end of an iteration without line 302 (tol keeps its escalated value)
EndStepMutNoReset ==
    /\ tol' = tol
    /\ i' = i + 1
    /\ pc' = IF i + 1 = NSteps THEN "repair" ELSE "solve"
    /\ P' = NoResult
    /\ call' = NoCall
    /\ start' = 0
    /\ now' = 0

\* lines 291-309: the end of one iteration of the per-step loop; tol is set
\* back to initial_tol and the loop goes on to the next matrix. P and the
\* timer are dead from here on (both are assigned before they are read again)
EndStep ==
    /\ tol' = initial_tol
    /\ i' = i + 1
    /\ pc' = IF i + 1 = NSteps THEN "repair" ELSE "solve"
    /\ P' = NoResult
    /\ call' = NoCall
    /\ start' = 0
    /\ now' = 0

\* lines 242-243: the first LP of step i, solved with the current tol
FirstSolve ==
    /\ pc = "solve"
    /\ \E R \in SolverResults, d \in Durations :
         /\ P' = R
         /\ now' = now + d
    /\ call' = [step |-> i, tol |-> tol, first |-> TRUE]
    /\ pc' = "check"
    /\ UNCHANGED <<k, initial_tol, tol, i, start, flag, Px>>
    /\ UNCHANGED RepairVars
    /\ UNCHANGED InterpVars

\* lines 246, 284-289: type(P.x) is float (nan): the step is flagged at once
InfeasibleStart ==
    /\ pc = "check"
    /\ IsNaN(P.x)
    /\ flag' = [flag EXCEPT ![i] = -1]
    /\ EndStep
    /\ UNCHANGED <<k, initial_tol, Px>>
    /\ UNCHANGED RepairVars
    /\ UNCHANGED InterpVars

\* lines 246-249: P.x is an array: start = time.time()
StartTimer ==
    /\ pc = "check"
    /\ ~IsNaN(P.x)
    /\ start' = now
    /\ pc' = "while"
    /\ UNCHANGED <<k, initial_tol, tol, i, P, now, call, flag, Px>>
    /\ UNCHANGED RepairVars
    /\ UNCHANGED InterpVars

\* lines 260-262 on a P.x that is the float nan: P.x[P.x < 0] raises
\* TypeError, which nothing catches
WhileTypeError ==
    /\ pc = "while"
    /\ IsNaN(P.x)
    /\ pc' = "raised"
    /\ UNCHANGED <<k, initial_tol, tol, i, P, start, now, call, flag, Px>>
    /\ UNCHANGED RepairVars
    /\ UNCHANGED InterpVars

\* the test of line 272 with the 1e-2 of the docstring as the ceiling
MayRetryMutCeiling == (tol < TolFactor * TolCeiling) /\ (now - start < Budget)

\* the test of line 272 without its clock reading
MayRetryMutNoTimer == tol < TolCeiling

\* the test of line 272
MayRetry == (tol < TolCeiling) /\ (now - start < Budget)

\* lines 260-275: the result is rejected and both limits allow a new LP
Retry ==
    /\ pc = "while"
    /\ ~IsNaN(P.x)
    /\ Rejected(P)
    /\ MayRetry
    /\ tol' = tol * TolFactor
    /\ \E R \in SolverResults, d \in Durations :
         /\ P' = R
         /\ now' = now + d
    /\ call' = [step |-> i, tol |-> tol * TolFactor, first |-> FALSE]
    /\ UNCHANGED <<k, initial_tol, i, pc, start, flag, Px>>
    /\ UNCHANGED RepairVars
    /\ UNCHANGED InterpVars

\* lines 276-282: the result is rejected and a limit is reached; the step is
\* flagged and the rejected solution is stored all the same
Exhaust ==
    /\ pc = "while"
    /\ ~IsNaN(P.x)
    /\ Rejected(P)
    /\ ~MayRetry
    /\ flag' = [flag EXCEPT ![i] = -1]
    /\ Px' = [Px EXCEPT ![i] = Reshape(P.x)]
    /\ EndStep
    /\ UNCHANGED <<k, initial_tol>>
    /\ UNCHANGED RepairVars
    /\ UNCHANGED InterpVars

\* lines 260-262, 282: the while condition is false; the solution is stored
Accept ==
    /\ pc = "while"
    /\ ~IsNaN(P.x)
    /\ ~Rejected(P)
    /\ Px' = [Px EXCEPT ![i] = Reshape(P.x)]
    /\ EndStep
    /\ UNCHANGED <<k, initial_tol, flag>>
    /\ UNCHANGED RepairVars
    /\ UNCHANGED InterpVars

(* ---------------------------------------------------- Chain Repair Engine *)
\* success computed as failure is (np.nonzero(flag)[0])
SuccessOfMutFailed(fl) == SortedSeq({j \in Steps : fl[j] # 0})

\* lines 308-309: np.nonzero(flag)[0] and np.nonzero(flag + 1)[0]
FailureOf(fl) == SortedSeq({j \in Steps : fl[j] # 0})
SuccessOf(fl) == SortedSeq({j \in Steps : fl[j] + 1 # 0})

\* lines 353-360: from the last failure backwards, append the largest valid
\* index below it and sort; max() of nothing raises ValueError, which ends
\* the loop with minvec as it is
RECURSIVE MinvecLoop(_, _, _, _)
MinvecLoop(fail, succ, j, acc) ==
    IF j = 0 THEN acc
    ELSE LET S == {x \in Range(succ) : x < fail[j]}
         IN IF S = {} THEN acc
            ELSE MinvecLoop(fail, succ, j - 1, InsertSorted(acc, SetMax(S)))

\* lines 371-375: from the first failure forwards, append the smallest valid
\* index above it; min() of nothing raises ValueError, which ends the loop
RECURSIVE MaxvecLoop(_, _, _, _)
MaxvecLoop(fail, succ, j, acc) ==
    IF j > Len(fail) THEN acc
    ELSE LET S == {x \in Range(succ) : x > fail[j]}
         IN IF S = {} THEN acc
            ELSE MaxvecLoop(fail, succ, j + 1, Append(acc, SetMin(S)))

\* np.pad(v, (n, 0), constant_values=-1) and np.pad(v, (0, n), ...)
PadLeft(v, n) == [j \in 1 .. n |-> -1] \o v
PadRight(v, n) == v \o [j \in 1 .. n |-> -1]

\* lines 404-414: -1 everywhere, 1 at the failed positions
ReplInit(fail) == [j \in Steps |-> IF j \in Range(fail) THEN 1 ELSE -1]

\* repl[repl > 0] = vals: the q-th position holding a positive number takes
\* vals[q]
MaskAssign(repl, vals) ==
    [j \in Steps |->
        IF repl[j] > 0
        THEN vals[Cardinality({m \in Steps : m <= j /\ repl[m] > 0})]
        ELSE repl[j]]

\* lines 420-422: minvec padded with -1 on the left, then written into the
\* failed positions of repl_min
ReplMin(fail, succ) ==
    LET mv == MinvecLoop(fail, succ, Len(fail), <<>>)
    IN MaskAssign(ReplInit(fail), PadLeft(mv, Len(fail) - Len(mv)))

\* lines 428-430: maxvec padded with -1 on the right, then written into the
\* failed positions of repl_max
ReplMax(fail, succ) ==
    LET mv == MaxvecLoop(fail, succ, 1, <<>>)
    IN MaskAssign(ReplInit(fail), PadRight(mv, Len(fail) - Len(mv)))

\* succ_vec with repl_min > 0 in place of repl_min > -1
SuccVecMutPositive(repl_min, repl_max) ==
    [j \in Steps |->
        IF (repl_min[j] > 0) /\ (repl_min[j] < repl_max[j]) THEN 1 ELSE 0]

\* lines 432-434
SuccVec(repl_min, repl_max) ==
    [j \in Steps |->
        IF (repl_min[j] > -1) /\ (repl_min[j] < repl_max[j]) THEN 1 ELSE 0]

\* lines 436-440: np.argwhere(succ_vec)[0,0] and [-1,0]; IndexError when
\* succ_vec is all zero, caught by the bare except
ThresholdLow(succ_vec) ==
    LET S == {j \in Steps : succ_vec[j] # 0}
    IN IF S = {} THEN -1 ELSE SetMin(S)

ThresholdHigh(succ_vec) ==
    LET S == {j \in Steps : succ_vec[j] # 0}
    IN IF S = {} THEN -1 ELSE SetMax(S)

\* lines 442-443
FailureKept(fail, low, high) ==
    SelectSeq(fail, LAMBDA f : (f >= low) /\ (f <= high))

\* lines 445, 448: minvec = repl_min * succ_vec; minvec = minvec[minvec > -1]
MinvecFinal(repl_min, succ_vec) ==
    SelectSeq(ArrSeq([j \in Steps |-> repl_min[j] * succ_vec[j]], NSteps),
              LAMBDA v : v > -1)

\* lines 446, 449: maxvec = repl_max * succ_vec; maxvec = maxvec[maxvec > 0]
MaxvecFinal(repl_max, succ_vec) ==
    SelectSeq(ArrSeq([j \in Steps |-> repl_max[j] * succ_vec[j]], NSteps),
              LAMBDA v : v > 0)

\* lines 458-461: the list of interpolated matrices, one per kept failure
Interpolated(px, fail, mn, mx) ==
    [q \in 1 .. Len(fail) |->
        interpolate(px[mn[q]], px[mx[q]],
                    alpha[mn[q]], alpha[mx[q]], alpha[fail[q]])]

\* lines 456-463: Px[failure] = [...]; with no kept failure the assignment
\* raises ValueError, which is caught and changes nothing
PxRepaired(fl, px, fail, mn, mx) ==
    IF (\E j \in Steps : fl[j] = -1) /\ Len(fail) > 0
    THEN LET new == Interpolated(px, fail, mn, mx)
         IN [j \in Steps |->
               IF \E q \in 1 .. Len(fail) : fail[q] = j
               THEN new[CHOOSE q \in 1 .. Len(fail) : fail[q] = j]
               ELSE px[j]]
    ELSE px

\* the flags without line 467
FlagRepairedMutKeep(fl, fail) == fl

\* lines 456, 467: flag[failure] = 0
FlagRepaired(fl, fail) ==
    IF \E j \in Steps : fl[j] = -1
    THEN [j \in Steps |-> IF j \in Range(fail) THEN 0 ELSE fl[j]]
    ELSE fl

\* the chain without line 472 (every stored matrix is returned)
TakeMutAll(px, succ) == ArrSeq(px, NSteps)

\* line 472: Px = Px[success]
Take(px, succ) == [q \in 1 .. Len(succ) |-> px[succ[q]]]

\* the new time grid with t left whole when no step survives
TNewMutNoFallback(succ) ==
    IF succ = <<>> THEN ArrSeq(t, k + 1)
    ELSE IF succ[1] = 0 THEN [j \in 1 .. (Len(succ) + 2) |-> t[j - 1]]
    ELSE <<0>> \o SelectSeq(ArrSeq(t, k + 1),
                            LAMBDA v : (v >= t[succ[1] + 1])
                                       /\ (v <= t[succ[Len(succ)] + 2]))

\* the new time grid with range(len(success)+1) on line 480
TNewMutShort(succ) ==
    IF succ = <<>> THEN <<t[0], t[1]>>
    ELSE IF succ[1] = 0 THEN [j \in 1 .. (Len(succ) + 1) |-> t[j - 1]]
    ELSE <<0>> \o SelectSeq(ArrSeq(t, k + 1),
                            LAMBDA v : (v >= t[succ[1] + 1])
                                       /\ (v <= t[succ[Len(succ)] + 2]))

\* the new time grid with t left whole on line 480
TNewMutNoTrim(succ) ==
    IF succ = <<>> THEN <<t[0], t[1]>>
    ELSE IF succ[1] = 0 THEN ArrSeq(t, k + 1)
    ELSE <<0>> \o SelectSeq(ArrSeq(t, k + 1),
                            LAMBDA v : (v >= t[succ[1] + 1])
                                       /\ (v <= t[succ[Len(succ)] + 2]))

\* the new time grid without the np.append(0, ...) of line 482
TNewMutNoAnchor(succ) ==
    IF succ = <<>> THEN <<t[0], t[1]>>
    ELSE IF succ[1] = 0 THEN [j \in 1 .. (Len(succ) + 2) |-> t[j - 1]]
    ELSE SelectSeq(ArrSeq(t, k + 1),
                   LAMBDA v : (v >= t[succ[1] + 1])
                              /\ (v <= t[succ[Len(succ)] + 2]))

\* the new time grid with t >= t[success[0]] on line 482
TNewMutInclusive(succ) ==
    IF succ = <<>> THEN <<t[0], t[1]>>
    ELSE IF succ[1] = 0 THEN [j \in 1 .. (Len(succ) + 2) |-> t[j - 1]]
    ELSE <<0>> \o SelectSeq(ArrSeq(t, k + 1),
                            LAMBDA v : (v >= t[succ[1]])
                                       /\ (v <= t[succ[Len(succ)] + 2]))

\* lines 478-493: the new time grid; success[0] of an empty array raises
\* IndexError, caught by the bare except
TNew(succ) ==
    IF succ = <<>> THEN <<t[0], t[1]>>
    ELSE IF succ[1] = 0 THEN [j \in 1 .. (Len(succ) + 2) |-> t[j - 1]]
    ELSE <<0>> \o SelectSeq(ArrSeq(t, k + 1),
                            LAMBDA v : (v >= t[succ[1] + 1])
                                       /\ (v <= t[succ[Len(succ)] + 2]))

\* lines 311-495: the whole repair, up to the return. flag and Px keep what
\* the per-step loop left; flag_rep and Px_rep are flag and Px as the repair
\* rewrites them in place; failure, minvec, maxvec are the arrays read by the
\* interpolation of lines 458-461; Px_out and t_new are returned
Repair ==
    /\ pc = "repair"
    /\ LET fail0 == FailureOf(flag)
           succ0 == SuccessOf(flag)
           repl_min == ReplMin(fail0, succ0)
           repl_max == ReplMax(fail0, succ0)
           succ_vec == SuccVec(repl_min, repl_max)
           fail1 == FailureKept(fail0, ThresholdLow(succ_vec),
                                ThresholdHigh(succ_vec))
           mn == MinvecFinal(repl_min, succ_vec)
           mx == MaxvecFinal(repl_max, succ_vec)
           px1 == PxRepaired(flag, Px, fail1, mn, mx)
           flag1 == FlagRepaired(flag, fail1)
           succ1 == SuccessOf(flag1)
       IN /\ failure' = fail1
          /\ minvec' = mn
          /\ maxvec' = mx
          /\ Px_rep' = px1
          /\ flag_rep' = flag1
          /\ success' = succ1
          /\ Px_out' = Take(px1, succ1)
          /\ t_new' = TNew(succ1)
    /\ pc' = "done"
    /\ UNCHANGED <<k, initial_tol, tol, i, P, start, now, call, flag, Px>>
    /\ UNCHANGED InterpVars

Next ==
    \/ FirstSolve
    \/ InfeasibleStart
    \/ StartTimer
    \/ WhileTypeError
    \/ Retry
    \/ Exhaust
    \/ Accept
    \/ Repair

Spec == Init /\ [][Next]_vars

(* ------------------------------------------------ interpolate on its own *)
\* the matrices and the coefficients interpolate is applied to: matrices that
\* lines 282 and 225 store, coefficients of the array alpha
InterpMatrices == {Reshape(I2), Reshape(H2), Zero}
InterpAlphas == {alpha[j] : j \in Steps}

\* a call interpolate(P_min, P_max, alpha_min, alpha_max, alpha_interp) about
\* to be made, for the largest k
InitInterp ==
    /\ k = MaxK
    /\ initial_tol \in TolChoices
    /\ tol = initial_tol
    /\ i = 0
    /\ pc = "interp"
    /\ P = NoResult
    /\ start = 0
    /\ now = 0
    /\ call = NoCall
    /\ flag = [j \in Steps |-> 0]
    /\ Px = [j \in Steps |-> Zero]
    /\ failure = <<>>
    /\ minvec = <<>>
    /\ maxvec = <<>>
    /\ flag_rep = flag
    /\ Px_rep = Px
    /\ success = <<>>
    /\ Px_out = <<>>
    /\ t_new = <<>>
    /\ interp_args \in [P_min : InterpMatrices, P_max : InterpMatrices,
                        alpha_min : InterpAlphas, alpha_max : InterpAlphas,
                        alpha_interp : InterpAlphas]
    /\ interp_ret = NoMatrix

\* lines 162-174: one call of interpolate
CallInterpolate ==
    /\ pc = "interp"
    /\ interp_ret' = interpolate(interp_args.P_min, interp_args.P_max,
                                 interp_args.alpha_min, interp_args.alpha_max,
                                 interp_args.alpha_interp)
    /\ pc' = "returned"
    /\ UNCHANGED <<k, initial_tol, tol, i, P, start, now, call, flag, Px>>
    /\ UNCHANGED RepairVars
    /\ UNCHANGED interp_args

NextInterp == CallInterpolate

SpecInterp == InitInterp /\ [][NextInterp]_vars

(* =================================================================== *)
(* Properties                                                            *)
(* =================================================================== *)
Done == pc = "done"

\* the valid steps strictly below and strictly above step f, by the flags
\* the per-step loop left
ValidBelow(f) == {v \in Steps : flag[v] = 0 /\ v < f}
ValidAbove(f) == {v \in Steps : flag[v] = 0 /\ v > f}

Failed(f) == flag[f] = -1
Repairable(f) == Failed(f) /\ ValidBelow(f) # {} /\ ValidAbove(f) # {}

\* the matrix lines 458-461 store at the q-th kept failure
StoredInterpolation(q) ==
    interpolate(Px[minvec[q]], Px[maxvec[q]],
                alpha[minvec[q]], alpha[maxvec[q]], alpha[failure[q]])

\* C1: on return, the matrix stored at every repairable failed step f is the
\* interpolation of the matrices and coefficients of the nearest valid step
\* strictly below f and of the nearest valid step strictly above f, weighted
\* with the coefficient of f.
C1_NearestNeighbours ==
    Done =>
      \A f \in Steps :
        Repairable(f) =>
          LET lo == SetMax(ValidBelow(f))
              hi == SetMin(ValidAbove(f))
          IN Px_rep[f] = interpolate(Px[lo], Px[hi],
                                     alpha[lo], alpha[hi], alpha[f])

\* C2: on return, the original steps whose matrices make up the returned
\* chain are consecutive and increasing, the chain holds their matrices in
\* that order, and the returned grid is 0 followed by the left edge of the
\* first surviving step and the right edge of every surviving step.
C2_Contiguous ==
    Done =>
      /\ Len(Px_out) = Len(success)
      /\ \A q \in 1 .. Len(success) : Px_out[q] = Px_rep[success[q]]
      /\ \A q \in 1 .. Len(success) - 1 : success[q + 1] = success[q] + 1
      /\ success # <<>> =>
           /\ Len(t_new) = Len(success) + 2
           /\ t_new[1] = 0
           /\ \A q \in 1 .. Len(success) :
                /\ t_new[q + 1] = t[success[q] + 1]
                /\ t_new[q + 2] = t[success[q] + 2]

\* a repaired step inside a chain that lost a step at one end
C2_Witness ==
    /\ Done
    /\ Len(success) >= 3
    /\ Len(success) < NSteps
    /\ \E f \in Range(success) : Failed(f)

\* C3: on return, every matrix of the chain is an accepted matrix or the
\* interpolation of two accepted matrices: a valid step returns the matrix
\* stored for it, a failed step that is returned holds the interpolation
\* computed for it, and both inputs of every interpolation are matrices of
\* valid steps.
C3_AllValid ==
    Done =>
      /\ \A q \in 1 .. Len(success) :
           IF flag[success[q]] = 0
           THEN Px_out[q] = Px[success[q]]
           ELSE \E r \in 1 .. Len(failure) :
                  /\ failure[r] = success[q]
                  /\ Px_out[q] = StoredInterpolation(r)
      /\ \A r \in 1 .. Len(failure) :
           flag[minvec[r]] = 0 /\ flag[maxvec[r]] = 0

\* C4: on return, a failed step is in the returned chain, holding an
\* interpolated matrix, iff a valid step exists strictly below it and a valid
\* step exists strictly above it; every other failed step is dropped.
C4_KeptIffRepairable ==
    Done =>
      \A f \in Steps :
        Failed(f) =>
          /\ (f \in Range(success)) <=> Repairable(f)
          /\ Repairable(f) =>
               \E r \in 1 .. Len(failure), q \in 1 .. Len(success) :
                 /\ failure[r] = f
                 /\ success[q] = f
                 /\ Px_out[q] = StoredInterpolation(r)

\* one failed step kept and one failed step dropped
C4_Witness ==
    /\ Done
    /\ \E f \in Steps : Repairable(f) /\ f \in Range(success)
    /\ \E f \in Steps : Failed(f) /\ ~Repairable(f) /\ f \notin Range(success)

\* C5: whenever the per-step loop leaves a step with flag 0, the solver
\* result it holds has status 0, an objective in [0,1], every component in
\* [0,1] and every row of the n x n matrix summing to 1 within 1e-6, and the
\* matrix stored for the step is that result.
C5_ValidOnlyIfAccepted ==
    [][(i' = i + 1 /\ flag'[i] = 0) =>
         /\ P.status = 0
         /\ P.fun >= 0 /\ P.fun <= Unit
         /\ Len(P.x) = N * N
         /\ \A j \in 1 .. N * N : P.x[j] >= 0 /\ P.x[j] <= Unit
         /\ \A r \in 1 .. N :
              Abs(SumSeq(SubSeq(P.x, (r - 1) * N + 1, r * N)) - Unit) <= 1
         /\ \A r \in 1 .. N : \A c \in 1 .. N :
              Px'[i][r][c] = P.x[(r - 1) * N + c]]_vars

\* a step accepted with rows that sum to 1 only within the tolerance, after a
\* step that was rejected to the end
C5_Witness ==
    /\ i >= 2
    /\ \E j \in 0 .. i - 1 : flag[j] = 0 /\ Px[j] = Reshape(H2)
    /\ \E j \in 0 .. i - 1 : flag[j] = -1 /\ Px[j] # Zero

\* C6 as claimed: no solver call is made with a tolerance above the ceiling.
C6_CeilingNeverExceeded ==
    (call.step >= 0) => (call.tol <= TolCeiling)

\* C6 as amended: every re-solve is made with ten times a tolerance that was
\* below the ceiling, so with a tolerance below ten times the ceiling.
C6_RetryBelowTenCeilings ==
    (call.step >= 0 /\ ~call.first) =>
      /\ call.tol % TolFactor = 0
      /\ call.tol \div TolFactor < TolCeiling
      /\ call.tol < TolFactor * TolCeiling

\* a re-solve above the ceiling
C6_Witness ==
    /\ call.step >= 0
    /\ ~call.first
    /\ call.tol > TolCeiling

\* C7: the first solver call of every step is made with the tolerance the
\* caller passed.
C7_FirstCallInitialTol ==
    (call.step >= 0 /\ call.first) => (call.tol = initial_tol)

\* the first call of a step that follows a step exhausted after escalation
C7_Witness ==
    /\ call.first
    /\ call.step >= 1
    /\ initial_tol < TolCeiling
    /\ flag[call.step - 1] = -1
    /\ Px[call.step - 1] # Zero

\* C8: no solver result, the nan of an infeasible start included, makes the
\* call raise.
C8_NeverRaises == pc # "raised"

\* C9: a step is flagged failed only when its latest result is rejected and
\* the tolerance has reached the ceiling or the time spent on the step has
\* reached the budget.
C9_FlaggedOnlyAtLimit ==
    [][(flag' # flag) =>
         /\ Rejected(P)
         /\ (tol >= TolCeiling) \/ (now >= Budget)]_vars

\* C10: when every step is flagged failed the per-step loop has ended
\* without an error, and the call returns no matrix and the grid made of the
\* first two points of the original grid.
C10_AllFailed ==
    (i = NSteps /\ \A j \in Steps : Failed(j)) =>
      /\ pc \in {"repair", "done"}
      /\ Done => (Px_out = <<>> /\ t_new = <<t[0], t[1]>>)

\* every one of three or more steps failed, some by an infeasible start and
\* some by exhaustion, and the call has returned
C10_Witness ==
    /\ Done
    /\ NSteps >= 3
    /\ \A j \in Steps : Failed(j)
    /\ \E j \in Steps : Px[j] = Zero
    /\ \E j \in Steps : Px[j] # Zero

\* C11: when every step is flagged valid, the returned chain is the k-1
\* stored matrices in their order and the returned grid is the original grid
\* of k+1 points.
C11_AllValidNoOp ==
    (Done /\ \A j \in Steps : flag[j] = 0) =>
      /\ Px_out = ArrSeq(Px, NSteps)
      /\ t_new = ArrSeq(t, k + 1)

\* three or more steps, all accepted, not all with the same matrix
C11_Witness ==
    /\ Done
    /\ NSteps >= 3
    /\ \A j \in Steps : flag[j] = 0
    /\ \E j \in Steps : Px[j] # Px[0]

\* the last step is the only failed step
OnlyLastFailed == \A j \in Steps : Failed(j) <=> (j = NSteps - 1)

NothingDropped == \A f \in Steps : Failed(f) => Repairable(f)

\* C13: the chain has k-1 matrices and the grid k+1 points exactly when every
\* step is accepted or repaired; when a step is dropped both are shorter.
C13_FullLengthIffNothingDropped ==
    Done =>
      /\ NothingDropped <=> (Len(Px_out) = k - 1 /\ Len(t_new) = k + 1)
      /\ ~NothingDropped => (Len(Px_out) < k - 1 /\ Len(t_new) < k + 1)

\* a full chain with a repaired step in it
C13_Witness ==
    /\ Done
    /\ NothingDropped
    /\ \E f \in Steps : Failed(f)
    /\ Len(Px_out) = k - 1

\* C14: a surviving range that starts at step 0 returns the leading points of
\* the original grid unchanged; one that starts later returns 0 followed by
\* the consecutive original points from the left edge of the first surviving
\* step to the right edge of the last one, and nothing beyond.
C14_GridOfSurvivingRange ==
    (Done /\ success # <<>>) =>
      LET first == success[1]
          last == success[Len(success)]
      IN IF first = 0
         THEN /\ Len(t_new) <= k + 1
              /\ \A j \in 1 .. Len(t_new) : t_new[j] = t[j - 1]
              /\ t_new[Len(t_new)] = t[last + 2]
         ELSE /\ t_new[1] = 0
              /\ Len(t_new) = (last - first) + 3
              /\ \A j \in 2 .. Len(t_new) : t_new[j] = t[first + j - 1]
              /\ t_new[Len(t_new)] = t[last + 2]

\* a chain that lost a step at each end
C14_Witness ==
    /\ Done
    /\ success # <<>>
    /\ success[1] > 0
    /\ success[Len(success)] < NSteps - 1

\* the weights of the call made, as fractions
ArgCoeffMin ==
    CoeffMin(InvSqrt1p(interp_args.alpha_min), InvSqrt1p(interp_args.alpha_max),
             InvSqrt1p(interp_args.alpha_interp))
ArgCoeffMax ==
    CoeffMax(InvSqrt1p(interp_args.alpha_min), InvSqrt1p(interp_args.alpha_max),
             InvSqrt1p(interp_args.alpha_interp))

\* C15: for distinct neighbour coefficients, interpolate returns P_min when
\* the failed step's coefficient is the below-neighbour's and P_max when it
\* is the above-neighbour's, and its two weights sum to 1.
C15_ExactAtBoundaries ==
    (pc = "returned" /\ interp_args.alpha_min # interp_args.alpha_max) =>
      /\ (interp_args.alpha_interp = interp_args.alpha_min)
           => (interp_ret = interp_args.P_min)
      /\ (interp_args.alpha_interp = interp_args.alpha_max)
           => (interp_ret = interp_args.P_max)
      /\ ArgCoeffMin.den = ArgCoeffMax.den
      /\ ArgCoeffMin.den # 0
      /\ ArgCoeffMin.num + ArgCoeffMax.num = ArgCoeffMin.den

\* a call at the above-neighbour's coefficient with two different matrices
C15_Witness ==
    /\ pc = "returned"
    /\ interp_args.alpha_min # interp_args.alpha_max
    /\ interp_args.alpha_interp = interp_args.alpha_max
    /\ interp_args.P_min # interp_args.P_max
    /\ interp_ret = interp_args.P_max

\* C16: the retry loop of every step ends and the pipeline returns: a run
\* never stops anywhere but at the return of lp.
C16_PipelineReturns == Done \/ ENABLED Next

\* a transition that starts a re-solve (line 274)
ReSolveStarted == call' # call /\ call'.step = i /\ ~call'.first

\* C17 as stated: a re-solve is started only while the time elapsed since
\* the step started, the first solve included, is below the budget.
C17_BudgetFromStepStart == [][ReSolveStarted => (now < Budget)]_vars

\* C17 amended: a re-solve is started only while the time elapsed since the
\* first solve of the step returned is below the budget.
C17_BudgetFromFirstResult == [][ReSolveStarted => (now - start < Budget)]_vars

\* a re-solve has been made in a step whose first solve alone used up the
\* budget
C17_Witness ==
    /\ pc = "while"
    /\ call.step = i
    /\ ~call.first
    /\ start >= Budget

C19_AcceptedKept ==
    Done =>
      \A v \in Steps :
        flag[v] = 0 =>
          /\ Px_rep[v] = Px[v]
          /\ flag_rep[v] = 0
          /\ \E q \in 1 .. Len(success) :
               success[q] = v /\ Px_out[q] = Px[v]

\* accepted steps around a repaired step, behind a dropped one
C19_Witness ==
    /\ Done
    /\ \E f \in Steps : Repairable(f) /\ Px_rep[f] # Px[f]
    /\ \E f \in Steps : Failed(f) /\ ~Repairable(f)
    /\ \E v \in Steps : flag[v] = 0 /\ Px[v] = Reshape(H2)

====
